---------------------------- MODULE Spec2Model ----------------------------
(***************************************************************************)
(* Model of DB_Agent (src/src/db/db_agent.py): a wrapper around one SQLite *)
(* database file.  Every public method is one action.  An internal step    *)
(* that can raise (makedirs, sqlite3.connect, Connection.cursor, open/read *)
(* of the schema file, statement execution, commit, rollback, close,       *)
(* os.remove) yields a SET of outcomes, one per way the step can end, and  *)
(* a method is the union of the outcomes of its steps in code order.       *)
(***************************************************************************)
EXTENDS Integers, Sequences, FiniteSets, TLC

VARIABLES
    conn,        \* self.conn: 0 is None, otherwise the id of a connection
    cursor,      \* self.cursor: 0 is None, otherwise the id of the connection it belongs to
    open,        \* ids of the connections that were opened and not closed
    txn,         \* per connection: its open, uncommitted transaction
    dirExists,   \* the parent directory of db_name exists
    fileExists,  \* the database file exists
    file,        \* committed contents of the database file
    faults,      \* history: how often the environment (disk, OS, engine) has failed a step
    made,        \* history: tables made by a successful initialize_db, no drop or nuke call since
    gone,        \* history: tables lost to a successful nuke_db, no initialize_db or CREATE call since
    last,        \* history: the most recent public call and how it ended
    watch        \* which history is kept: "calls", "tables" or "rows"; never changes

vars == <<conn, cursor, open, txn, dirExists, fileExists, file, faults, made, gone, last, watch>>

\* ------------------------------------------------------------------ bounds
MaxConn   == 2   \* connections that can be open at once (sqlite3.connect fails beyond)
MaxFaults == 1   \* failures of the environment in one run

\* ------------------------------------------------------------- the database
Tables  == {"songs", "albums"}
Columns == {"title", "artist"}
Values  == {"a", "b"}
Names   == Tables \cup {"nosuch"}
Conns   == 1..MaxConn

Range(s) == {s[i] : i \in 1..Len(s)}

\* A database: the tables of the catalog (sqlite_master) and the rows of each.
EmptyDB == [tables |-> {}, rows |-> [t \in Tables |-> <<>>]]
NoTxn   == [active |-> FALSE, db |-> EmptyDB]

\* A WHERE condition: every row, or column = literal.  A malformed condition has
\* col = "bad"; a condition with a placeholder has val = "?".
AllRows == [col |-> "*", val |-> "*"]
BadCond == [col |-> "bad", val |-> "bad"]

\* The condition with its placeholder bound to the parameters.
BindCond(cond, params) ==
    IF cond.val = "?" /\ Len(params) = 1 THEN [cond EXCEPT !.val = params[1]] ELSE cond

\* Number of ? placeholders of a statement.
Placeholders(stmt) ==
    CASE stmt.kind = "insert" -> stmt.nph
      [] stmt.kind = "update" -> Len(stmt.cols)
      [] stmt.kind = "select" -> IF stmt.cond.val = "?" THEN 1 ELSE 0
      [] OTHER -> 0

Matches(row, cond) ==
    \/ cond = AllRows
    \/ cond.col \in Columns /\ row[cond.col] = cond.val

Distinct(s) == \A i, j \in 1..Len(s) : s[i] = s[j] => i = j

IndexOf(s, x) == CHOOSE i \in 1..Len(s) : s[i] = x

\* The statement is compiled against the database: sqlite3_prepare fails on
\* malformed SQL, an unknown table or column, and the binding fails when the
\* number of parameters differs from the number of placeholders.
Prepares(db, stmt, params) ==
    /\ stmt.kind # "bad"
    /\ Len(params) = Placeholders(stmt)
    /\ CASE stmt.kind = "create" -> stmt.table \notin db.tables
         [] stmt.kind = "drop" -> stmt.table \in db.tables
         [] stmt.kind = "insert" ->
               /\ stmt.table \in db.tables
               /\ stmt.cols # <<>> /\ Distinct(stmt.cols) /\ Range(stmt.cols) \subseteq Columns
               /\ stmt.nph = Len(stmt.cols)
         [] stmt.kind = "update" ->
               /\ stmt.table \in db.tables
               /\ stmt.cols # <<>> /\ Range(stmt.cols) \subseteq Columns
               /\ stmt.cond # BadCond
         [] stmt.kind = "delete" -> stmt.table \in db.tables /\ stmt.cond # BadCond
         [] stmt.kind = "select" ->
               /\ stmt.table \in db.tables
               /\ stmt.cols # <<>> /\ Range(stmt.cols) \subseteq Columns
               /\ stmt.cond # BadCond
         [] stmt.kind = "catalog" -> TRUE
         [] OTHER -> FALSE

\* The i-th bound value goes to the column named i-th in the statement.
InsertedRow(stmt, params) == [c \in Columns |-> params[IndexOf(stmt.cols, c)]]

\* SET c1 = ?, c2 = ?, ...: assignments apply left to right, so the last one to a
\* column wins.
UpdatedRow(row, stmt, params) ==
    [c \in Columns |->
        IF c \in Range(stmt.cols)
        THEN params[CHOOSE i \in 1..Len(stmt.cols) :
                       stmt.cols[i] = c /\ \A j \in 1..Len(stmt.cols) : stmt.cols[j] = c => j <= i]
        ELSE row[c]]

RECURSIVE Keep(_, _)
\* The rows of a sequence that satisfy a condition, in order.
Keep(rows, cond) ==
    IF rows = <<>> THEN <<>>
    ELSE IF Matches(Head(rows), cond) THEN <<Head(rows)>> \o Keep(Tail(rows), cond)
         ELSE Keep(Tail(rows), cond)

RECURSIVE Drop(_, _)
\* The rows of a sequence that do not satisfy a condition, in order.
Drop(rows, cond) ==
    IF rows = <<>> THEN <<>>
    ELSE IF Matches(Head(rows), cond) THEN Drop(Tail(rows), cond)
         ELSE <<Head(rows)>> \o Drop(Tail(rows), cond)

\* The database after a statement that prepared and ran.
Apply(db, stmt, params) ==
    CASE stmt.kind = "create" -> [db EXCEPT !.tables = @ \cup {stmt.table}]
      [] stmt.kind = "drop" ->
            [db EXCEPT !.tables = @ \ {stmt.table}, !.rows[stmt.table] = <<>>]
      [] stmt.kind = "insert" ->
            [db EXCEPT !.rows[stmt.table] = Append(@, InsertedRow(stmt, params))]
      [] stmt.kind = "update" ->
            [db EXCEPT !.rows[stmt.table] =
                [i \in 1..Len(@) |->
                    IF Matches(@[i], stmt.cond) THEN UpdatedRow(@[i], stmt, params) ELSE @[i]]]
      [] stmt.kind = "delete" ->
            [db EXCEPT !.rows[stmt.table] = Drop(@, stmt.cond)]
      [] OTHER -> db

\* The schema of every table is (title TEXT PRIMARY KEY, artist TEXT NOT NULL).
Constraints(rows) ==
    \A i, j \in 1..Len(rows) : rows[i]["title"] = rows[j]["title"] => i = j

\* The statement runs to completion: an INSERT names every column (NOT NULL),
\* and the table it leaves satisfies the constraints; a statement that does not
\* leaves nothing behind.
Runs(db, stmt, params) ==
    /\ stmt.kind = "insert" => Range(stmt.cols) = Columns
    /\ stmt.kind \in {"insert", "update"} =>
          Constraints(Apply(db, stmt, params).rows[stmt.table])

\* The result rows of a query: one tuple per matching row, its values in the
\* order of the selected columns.
ResultRows(db, stmt, params) ==
    CASE stmt.kind = "select" ->
            LET hit == Keep(db.rows[stmt.table], BindCond(stmt.cond, params))
            IN  [i \in 1..Len(hit) |-> [k \in 1..Len(stmt.cols) |-> hit[i][stmt.cols[k]]]]
      [] stmt.kind = "catalog" ->
            IF stmt.table \in db.tables THEN << <<stmt.table>> >> ELSE <<>>
      [] OTHER -> <<>>

\* ---------------------------------------------------------------- results
\* What a method hands back.  Python's None, a bool and a list are different
\* values: kind tells them apart.
RetNone       == [kind |-> "None", rows |-> <<>>, bool |-> FALSE]
RetList(rows) == [kind |-> "list", rows |-> rows, bool |-> FALSE]
RetBool(b)    == [kind |-> "bool", rows |-> <<>>, bool |-> b]

\* ------------------------------------------------------- the agent's steps
\* The agent and its files while a method runs.  err: an exception is in flight
\* inside the method's try block; exc: an exception leaves the method; failed:
\* the steps that raised during the call; rows: the result set of the cursor.
Agent ==
    [conn |-> conn, cursor |-> cursor, open |-> open, txn |-> txn,
     dirExists |-> dirExists, fileExists |-> fileExists, file |-> file, faults |-> faults,
     err |-> FALSE, exc |-> FALSE, failed |-> {}, rows |-> <<>>, ret |-> RetNone]

\* The environment fails the step about to run: the agent as the failure finds
\* it; none once the run has had MaxFaults such failures.
EnvFails(s) ==
    IF s.faults < MaxFaults THEN {[s EXCEPT !.faults = @ + 1]} ELSE {}

\* An exception caught where it is raised (logged only).
Logged(s, step) == [s EXCEPT !.failed = @ \cup {step}]
\* An exception raised inside a try block.
Thrown(s, step) == [s EXCEPT !.failed = @ \cup {step}, !.err = TRUE]
\* An exception raised outside every try block.
Escaped(s, step) == [s EXCEPT !.failed = @ \cup {step}, !.exc = TRUE]

\* f applied to every outcome of S.
Then(S, f(_)) == UNION {f(s) : s \in S}
\* A statement of a try block: skipped once an exception is in flight.
Try(S, f(_)) == UNION {IF s.err THEN {s} ELSE f(s) : s \in S}

FreshConn(s) == CHOOSE c \in Conns \ s.open : \A d \in Conns \ s.open : c <= d

\* connect(): makedirs when the directory is missing, sqlite3.connect (which
\* creates the file when it is missing), then conn.cursor(); self.conn and
\* self.cursor are assigned as each call returns, and any exception is logged.
connect(s) ==
    LET mkFails  == IF s.dirExists THEN {} ELSE {Logged(e, "mkdir") : e \in EnvFails(s)}
        t        == [s EXCEPT !.dirExists = TRUE]
        u        == [t EXCEPT !.conn = FreshConn(t), !.open = @ \cup {FreshConn(t)},
                              !.fileExists = TRUE]
        curFails == {Logged(e, "cursor") : e \in EnvFails(u)}
        done     == {[u EXCEPT !.cursor = u.conn]}
    IN  mkFails \cup
        (IF Conns \ t.open = {} THEN {Logged(t, "open")}
         ELSE {Logged(e, "open") : e \in EnvFails(t)} \cup curFails \cup done)

\* Connection.close(): the connection's open transaction is discarded.
Closed(s, c) == [s EXCEPT !.open = @ \ {c}, !.txn[c] = NoTxn]

\* disconnect() without line 61: the cursor is not reset.
disconnect_keeps_cursor(s) ==
    IF s.conn # 0
    THEN {[Closed(s, s.conn) EXCEPT !.conn = 0]} \cup {Escaped(e, "close") : e \in EnvFails(s)}
    ELSE {s}

\* disconnect(): close, then reset both handles; close() is not guarded.
disconnect(s) ==
    IF s.conn # 0
    THEN {[Closed(s, s.conn) EXCEPT !.conn = 0, !.cursor = 0]}
         \cup {Escaped(e, "close") : e \in EnvFails(s)}
    ELSE {s}

\* What connection c reads: its own uncommitted transaction, else the file.
View(s, c) == IF s.txn[c].active THEN s.txn[c].db ELSE s.file

\* Another connection holds the write lock of the file.
Busy(s, c) == \E d \in s.open \ {c} : s.txn[d].active

IsQuery(stmt) == stmt.kind \in {"select", "catalog"}
IsDML(stmt)   == stmt.kind \in {"insert", "update", "delete"}

\* cursor.execute(sql, params) on the connection the cursor belongs to.  A query
\* fills the result set.  INSERT, UPDATE and DELETE open a transaction first
\* (the sqlite3 module's default isolation level); CREATE and DROP do not, and
\* commit at once unless a transaction is already open.  Each statement is
\* atomic.  Beyond the errors of the statement itself, the engine can fail
\* (I/O error, disk full, lock timeout).
cursor_execute(s, stmt, params) ==
    IF s.cursor = 0 THEN {Thrown(s, "exec")}
    ELSE
    LET c     == s.cursor
        db    == View(s, c)
        begun == IF s.txn[c].active THEN s
                 ELSE [s EXCEPT !.txn[c] = [active |-> TRUE, db |-> s.file]]
    IN  IF ~Prepares(db, stmt, params) THEN {Thrown(s, "exec")}
        ELSE IF IsQuery(stmt)
        THEN {[s EXCEPT !.rows = ResultRows(db, stmt, params)]}
             \cup {Thrown(e, "exec") : e \in EnvFails(s)}
        ELSE IF Busy(s, c) THEN {Thrown(s, "exec")}
        ELSE IF IsDML(stmt)
        THEN IF Runs(db, stmt, params)
             THEN {[begun EXCEPT !.txn[c].db = Apply(db, stmt, params)]}
                  \cup {Thrown(e, "exec") : e \in EnvFails(begun)}
             ELSE {Thrown(begun, "exec")}
        ELSE {Thrown(e, "exec") : e \in EnvFails(s)} \cup
             {IF s.txn[c].active
              THEN [s EXCEPT !.txn[c].db = Apply(db, stmt, params)]
              ELSE [s EXCEPT !.file = Apply(db, stmt, params)]}

RECURSIVE cursor_executemany(_, _, _)
\* cursor.executemany(sql, values): the statement once per tuple, in order, in
\* one transaction; the first tuple that fails ends the call.
cursor_executemany(s, stmt, values) ==
    IF values = <<>> THEN {s}
    ELSE UNION {IF t.err THEN {t} ELSE cursor_executemany(t, stmt, Tail(values)) :
                t \in cursor_execute(s, stmt, Head(values))}

RECURSIVE RunScript(_, _)
\* The statements of a script, in order, until one fails.
RunScript(s, script) ==
    IF script = <<>> THEN {s}
    ELSE UNION {IF t.err THEN {t} ELSE RunScript(t, Tail(script)) :
                t \in cursor_execute(s, Head(script), <<>>)}

\* cursor.executescript(schema): commits the connection's open transaction,
\* then runs the statements; it opens no transaction itself.
cursor_executescript(s, script) ==
    IF s.cursor = 0 THEN {Thrown(s, "exec")}
    ELSE LET c == s.cursor
             t == IF s.txn[c].active
                  THEN [s EXCEPT !.file = s.txn[c].db, !.txn[c] = NoTxn]
                  ELSE s
         IN  RunScript(t, script)

\* conn.commit(): nothing to do (and nothing to fail) without a transaction.
commit(s) ==
    IF s.conn = 0 THEN {Thrown(s, "commit")}
    ELSE IF s.txn[s.conn].active
    THEN {[s EXCEPT !.file = s.txn[s.conn].db, !.txn[s.conn] = NoTxn]}
         \cup {Thrown(e, "commit") : e \in EnvFails(s)}
    ELSE {s}

\* conn.rollback(), called from an except block: its exception leaves the method.
rollback(s) ==
    IF s.txn[s.conn].active
    THEN {[s EXCEPT !.txn[s.conn] = NoTxn]} \cup {Escaped(e, "rollback") : e \in EnvFails(s)}
    ELSE {s}

\* except Exception of the write methods: log, and roll back if connected.
HandleWrite(s) ==
    IF ~s.err THEN {s}
    ELSE LET h == [s EXCEPT !.err = FALSE]
         IN  IF h.conn # 0 THEN rollback(h) ELSE {h}

\* except Exception of the read methods: log.
HandleRead(s) == {[s EXCEPT !.err = FALSE]}

\* ------------------------------------------------------------- statements
Stmt(kind, table, cols, nph, cond) ==
    [kind |-> kind, table |-> table, cols |-> cols, nph |-> nph, cond |-> cond]

\* A dict is the sequence of its (key, value) items in iteration order.
Keys(data) == [i \in 1..Len(data) |-> data[i][1]]
Vals(data) == [i \in 1..Len(data) |-> data[i][2]]

\* INSERT with the column names sorted and the values left in key order.
InsertSQL_sorted(table, data) ==
    Stmt("insert", table,
         SelectSeq(<<"artist", "title">>, LAMBDA c : c \in Range(Keys(data))),
         Len(Vals(data)), AllRows)

\* f"INSERT INTO {table} ({columns}) VALUES ({placeholders})"
InsertSQL(table, data) == Stmt("insert", table, Keys(data), Len(Vals(data)), AllRows)

\* UPDATE without its WHERE clause.
UpdateSQL_no_where(table, data, condition) == Stmt("update", table, Keys(data), 0, AllRows)

\* f"UPDATE {table} SET {set_clause} WHERE {condition}"
UpdateSQL(table, data, condition) == Stmt("update", table, Keys(data), 0, condition)

\* f"DELETE FROM {table} WHERE {condition}"
DeleteSQL(table, condition) == Stmt("delete", table, <<>>, 0, condition)

\* f"INSERT INTO {table} ({', '.join(columns)}) VALUES ({placeholders})"
BulkSQL(table, columns) == Stmt("insert", table, columns, Len(columns), AllRows)

\* f"SELECT name FROM sqlite_master WHERE type='table' AND name='{table_name}'"
CatalogSQL(table_name) == Stmt("catalog", table_name, <<>>, 0, AllRows)

\* The schema files on disk: path -> the statements of the script.
SchemaFiles ==
    [p \in {"songs.sql", "both.sql"} |->
        IF p = "songs.sql" THEN <<Stmt("create", "songs", <<>>, 0, AllRows)>>
        ELSE <<Stmt("create", "albums", <<>>, 0, AllRows),
               Stmt("create", "songs", <<>>, 0, AllRows)>>]

\* with open(schema_path, 'r') as f: schema = f.read()
ReadSchema(s, schema_path) ==
    IF schema_path \in DOMAIN SchemaFiles
    THEN {s} \cup {Thrown(e, "read") : e \in EnvFails(s)}
    ELSE {Thrown(s, "read")}

\* --------------------------------------------------------------- methods
\* Each method: the set of ways the call can end, from agent state s.

initialize_db(s, schema_path) ==
    LET body(t) == Try(Try(ReadSchema(t, schema_path),
                           LAMBDA u : cursor_executescript(u, SchemaFiles[schema_path])),
                       commit)
    IN  Then(Then(Then(connect(s), body), HandleWrite), disconnect)

\* os.remove(self.db_name): the file must exist; its contents are gone with it,
\* and so is whatever a connection left behind had pending on it.
Remove(s) ==
    IF s.fileExists
    THEN {[s EXCEPT !.fileExists = FALSE, !.file = EmptyDB,
                    !.txn = [c \in Conns |-> NoTxn]]}
         \cup {Logged(e, "remove") : e \in EnvFails(s)}
    ELSE {Logged(s, "remove")}

\* nuke_db() without os.remove.
nuke_db_keeps_file(s) == disconnect(s)

nuke_db(s) ==
    Then(disconnect(s), LAMBDA t : IF t.exc THEN {t} ELSE Remove(t))

execute(s, sql, params) ==
    LET run(t) == IF params # <<>> THEN cursor_execute(t, sql, params)
                  ELSE cursor_execute(t, sql, <<>>)
        body(t) == Try(run(t), commit)
    IN  Then(Then(Then(connect(s), body), HandleWrite), disconnect)

\* The value a method returns; nothing is returned when an exception leaves it.
Return(s) == IF s.exc THEN [s EXCEPT !.ret = RetNone] ELSE s

\* data = [], in place of data = None.
FetchDefault_empty == RetList(<<>>)

\* data = None, before the try block of fetch.
FetchDefault == RetNone

\* data = self.cursor.fetchall(): the rows the query produced, as a list.
fetchall(s) == {[s EXCEPT !.ret = RetList(s.rows)]}

fetch(s, sql, params) ==
    LET run(t) == IF params # <<>> THEN cursor_execute(t, sql, params)
                  ELSE cursor_execute(t, sql, <<>>)
        body(t) == Try(run([t EXCEPT !.ret = FetchDefault]), fetchall)
        end(t)  == {Return(u) : u \in disconnect(t)}
    IN  Then(Then(Then(connect(s), body), HandleRead), end)

insert(s, table, data) ==
    LET body(t) == Try(cursor_execute(t, InsertSQL(table, data), Vals(data)), commit)
    IN  Then(Then(Then(connect(s), body), HandleWrite), disconnect)

update(s, table, data, condition) ==
    LET body(t) == Try(cursor_execute(t, UpdateSQL(table, data, condition), Vals(data)), commit)
    IN  Then(Then(Then(connect(s), body), HandleWrite), disconnect)

delete(s, table, condition) ==
    LET body(t) == Try(cursor_execute(t, DeleteSQL(table, condition), <<>>), commit)
    IN  Then(Then(Then(connect(s), body), HandleWrite), disconnect)

bulk_insert(s, table, columns, values) ==
    LET body(t) == Try(cursor_executemany(t, BulkSQL(table, columns), values), commit)
    IN  Then(Then(Then(connect(s), body), HandleWrite), disconnect)

\* exists = False, before the try block of table_exists.
ExistsDefault == RetBool(FALSE)

\* table_exists() without lines 262-263: exists is never set.
fetchone_ignored(s) == {s}

\* if self.cursor.fetchone(): exists = True
fetchone(s) == {IF s.rows # <<>> THEN [s EXCEPT !.ret = RetBool(TRUE)] ELSE s}

table_exists(s, table_name) ==
    LET body(t) == Try(cursor_execute([t EXCEPT !.ret = ExistsDefault],
                                      CatalogSQL(table_name), <<>>),
                       fetchone)
        end(t)  == {Return(u) : u \in disconnect(t)}
    IN  Then(Then(Then(connect(s), body), HandleRead), end)

\* __del__: close the connection if there is one; the interpreter ignores an
\* exception raised by a destructor.
del(s) ==
    IF s.conn # 0 THEN {Closed(s, s.conn)} \cup {Logged(e, "close") : e \in EnvFails(s)} ELSE {s}

\* ----------------------------------------------------------------- inputs
TitleIsA == [col |-> "title", val |-> "a"]
Conds    == {AllRows, BadCond, TitleIsA}

\* dicts of insert: none, one column short, and all columns in either key order.
InsertDicts ==
    {<<>>, << <<"title", "a">> >>,
     << <<"artist", "b">>, <<"title", "a">> >>,
     << <<"title", "b">>, <<"artist", "a">> >>}

\* (data, condition) of update.
UpdateInputs ==
    {<< << <<"artist", "a">> >>, c >> : c \in Conds}
    \cup {<< << <<"artist", "b">>, <<"title", "b">> >>, c >> : c \in {AllRows, TitleIsA}}
    \cup {<< <<>>, AllRows >>}

\* values of bulk_insert into (title, artist): lists of tuples; the second list
\* repeats a title, the last has a tuple of the wrong length.
TupleLists ==
    {<< <<"a", "b">>, <<"b", "b">> >>, << <<"a", "b">>, <<"a", "a">> >>,
     << <<"b", "a">>, <<"a">> >>}

\* (sql, params) of execute: DDL, a parameterized INSERT, malformed SQL.
ExecuteInputs ==
    {<<Stmt("create", "albums", <<>>, 0, AllRows), <<>>>>,
     <<Stmt("drop", "songs", <<>>, 0, AllRows), <<>>>>,
     <<Stmt("insert", "nosuch", <<"title">>, 1, AllRows), <<"a">>>>,
     <<Stmt("bad", "", <<>>, 0, AllRows), <<>>>>}

\* (sql, params) of fetch: SELECT cols FROM songs [WHERE artist = ?].
FetchInputs ==
    {<<Stmt("select", "songs", <<"title", "artist">>, 0, AllRows), <<>>>>,
     <<Stmt("select", "songs", <<"artist", "title">>, 0, [col |-> "artist", val |-> "?"]), <<"b">>>>,
     <<Stmt("select", "songs", <<"title", "artist">>, 0, [col |-> "artist", val |-> "?"]), <<>>>>}

SchemaPaths == DOMAIN SchemaFiles \cup {"missing.sql"}

\* ---------------------------------------------------------------- actions
\* The history of a call.  Under every watch: op, ok (no step failed and nothing
\* was raised) and raised (an exception reached the caller).  Under "calls":
\* the steps that failed, the value returned, whether the agent held a
\* connection when the call began, and the name a table_exists call asked for.
\* Under "tables": the name, the failed steps and the answer of a table_exists
\* call.  Under "rows", for an insert, update or fetch in which no step failed:
\* its arguments, the rows a fetch returned, and the committed contents of the
\* database before an update.
NoCall ==
    [op |-> "__init__", ok |-> TRUE, raised |-> FALSE, failed |-> {}, wasOpen |-> FALSE,
     ret |-> RetNone, table |-> "", data |-> <<>>, cols |-> <<>>, cond |-> AllRows,
     params |-> <<>>, before |-> EmptyDB]

Start(w) ==
    /\ conn = 0 /\ cursor = 0
    /\ open = {}
    /\ txn = [c \in Conns |-> NoTxn]
    /\ dirExists \in BOOLEAN
    /\ fileExists = FALSE
    /\ file = EmptyDB
    /\ faults = 0
    /\ made = {} /\ gone = {}
    /\ last = NoCall
    /\ watch = w

Init       == Start("calls")
InitTables == Start("tables")
InitRows   == Start("rows")

Alive == last.op # "__del__"

Succeeded(r) == r.failed = {} /\ ~r.exc

\* Connection ids are names of objects: the state is kept with the names in a
\* fixed order (the agent's connection first, then the cursor's, then those
\* nothing refers to, a lock holder first; closed ones last).
Rank(r, c) ==
    IF c = r.conn THEN 0
    ELSE IF c = r.cursor THEN 1
    ELSE IF c \in r.open /\ r.txn[c].active THEN 2
    ELSE IF c \in r.open THEN 3
    ELSE 4

Renaming(r) ==
    [c \in Conns |->
        1 + Cardinality({d \in Conns : \/ Rank(r, d) < Rank(r, c)
                                       \/ Rank(r, d) = Rank(r, c) /\ d < c})]

\* The transaction of a connection nothing refers to any more: its writes can be
\* neither read nor committed, only its lock is left.
Unreachable(t) == [t EXCEPT !.db = EmptyDB]

History(r, call) ==
    LET base == [NoCall EXCEPT !.op = call.op, !.ok = Succeeded(r), !.raised = r.exc]
    IN  CASE watch = "calls" ->
                [base EXCEPT !.failed = r.failed, !.ret = r.ret, !.wasOpen = conn # 0,
                             !.table = IF call.op = "table_exists" THEN call.table ELSE ""]
          [] watch = "tables" /\ call.op = "table_exists" ->
                [base EXCEPT !.failed = r.failed, !.ret = r.ret, !.table = call.table]
          [] watch = "rows" /\ call.op \in {"insert", "update", "fetch"} /\ Succeeded(r) ->
                [call EXCEPT !.ret = r.ret]
          [] OTHER -> base

\* The agent and the files are as r left them.
Leaves(r) ==
    LET p    == Renaming(r)
        name == [i \in Conns |-> CHOOSE c \in Conns : p[c] = i]
    IN  /\ conn' = IF r.conn = 0 THEN 0 ELSE p[r.conn]
        /\ cursor' = IF r.cursor = 0 THEN 0 ELSE p[r.cursor]
        /\ open' = {p[c] : c \in r.open}
        /\ txn' = [i \in Conns |-> IF name[i] \in {r.conn, r.cursor} THEN r.txn[name[i]]
                                    ELSE Unreachable(r.txn[name[i]])]
        /\ dirExists' = r.dirExists /\ fileExists' = r.fileExists /\ file' = r.file
        /\ faults' = r.faults
        /\ watch' = watch

\* The call ended as r.
Ends(r, call) == Leaves(r) /\ last' = History(r, call)

\* made and gone are kept under the "tables" watch.
Tracks(m, g) ==
    IF watch = "tables" THEN made' = m /\ gone' = g ELSE UNCHANGED <<made, gone>>

Connect ==
    /\ Alive
    /\ \E r \in connect(Agent) : Ends(r, [NoCall EXCEPT !.op = "connect"])
    /\ UNCHANGED <<made, gone>>

Disconnect ==
    /\ Alive
    /\ \E r \in disconnect(Agent) : Ends(r, [NoCall EXCEPT !.op = "disconnect"])
    /\ UNCHANGED <<made, gone>>

ScriptTables(path) ==
    IF path \in DOMAIN SchemaFiles THEN {st.table : st \in Range(SchemaFiles[path])} ELSE {}

InitializeDb ==
    /\ Alive
    /\ \E path \in SchemaPaths : \E r \in initialize_db(Agent, path) :
          /\ Ends(r, [NoCall EXCEPT !.op = "initialize_db"])
          /\ Tracks(IF Succeeded(r) THEN made \cup ScriptTables(path) ELSE made,
                    gone \ ScriptTables(path))

NukeDb ==
    /\ Alive
    /\ \E r \in nuke_db(Agent) :
          /\ Ends(r, [NoCall EXCEPT !.op = "nuke_db"])
          /\ Tracks({}, IF Succeeded(r) THEN gone \cup file.tables ELSE gone)

Execute ==
    /\ Alive
    /\ \E in \in ExecuteInputs : \E r \in execute(Agent, in[1], in[2]) :
          /\ Ends(r, [NoCall EXCEPT !.op = "execute"])
          /\ Tracks(IF in[1].kind = "drop" THEN made \ {in[1].table} ELSE made,
                    IF in[1].kind = "create" THEN gone \ {in[1].table} ELSE gone)

\* History for a fetch: the dict of the call before, when that call was an insert
\* into the same table in which no step failed.
JustInserted(table) ==
    IF last.op = "insert" /\ last.ok /\ last.table = table THEN last.data ELSE <<>>

Fetch ==
    /\ Alive
    /\ \E in \in FetchInputs : \E r \in fetch(Agent, in[1], in[2]) :
          Ends(r, [NoCall EXCEPT !.op = "fetch", !.table = in[1].table, !.cols = in[1].cols,
                                 !.cond = in[1].cond, !.params = in[2],
                                 !.data = JustInserted(in[1].table)])
    /\ UNCHANGED <<made, gone>>

Insert ==
    /\ Alive
    /\ \E data \in InsertDicts : \E r \in insert(Agent, "songs", data) :
          Ends(r, [NoCall EXCEPT !.op = "insert", !.table = "songs", !.data = data])
    /\ UNCHANGED <<made, gone>>

Update ==
    /\ Alive
    /\ \E in \in UpdateInputs : \E r \in update(Agent, "songs", in[1], in[2]) :
          Ends(r, [NoCall EXCEPT !.op = "update", !.table = "songs", !.data = in[1],
                                 !.cond = in[2], !.before = file])
    /\ UNCHANGED <<made, gone>>

Delete ==
    /\ Alive
    /\ \E cond \in Conds : \E r \in delete(Agent, "songs", cond) :
          Ends(r, [NoCall EXCEPT !.op = "delete"])
    /\ UNCHANGED <<made, gone>>

BulkInsert ==
    /\ Alive
    /\ \E values \in TupleLists :
       \E r \in bulk_insert(Agent, "albums", <<"title", "artist">>, values) :
          Ends(r, [NoCall EXCEPT !.op = "bulk_insert"])
    /\ UNCHANGED <<made, gone>>

TableExists ==
    /\ Alive
    /\ \E name \in Names : \E r \in table_exists(Agent, name) :
          Ends(r, [NoCall EXCEPT !.op = "table_exists", !.table = name])
    /\ UNCHANGED <<made, gone>>

\* The agent is torn down: no call follows.
Del ==
    /\ Alive
    /\ \E r \in del(Agent) : Ends(r, [NoCall EXCEPT !.op = "__del__"])
    /\ UNCHANGED <<made, gone>>

\* The runtime reclaims a connection object nothing refers to any more, which
\* closes it; when it does so is up to the runtime.
Finalize ==
    /\ \E c \in open \ {conn, cursor} : Leaves(Closed(Agent, c))
    /\ UNCHANGED <<made, gone, last>>

Next ==
    \/ Connect \/ Disconnect \/ InitializeDb \/ NukeDb \/ Execute \/ Fetch
    \/ Insert \/ Update \/ Delete \/ BulkInsert \/ TableExists \/ Del \/ Finalize

Spec       == Init /\ [][Next]_vars
SpecTables == InitTables /\ [][Next]_vars
SpecRows   == InitRows /\ [][Next]_vars

\* ------------------------------------------------------------------ claims
ScopedOps ==
    {"initialize_db", "nuke_db", "execute", "fetch", "insert", "update", "delete",
     "bulk_insert", "table_exists"}

WriteOps == {"execute", "insert", "update", "delete", "bulk_insert", "initialize_db"}

\* C1: when a call of initialize_db, nuke_db, execute, fetch, insert, update,
\* delete, bulk_insert or table_exists returns, whatever state the agent was in
\* and whichever of its steps failed, self.conn and self.cursor are both None;
\* the same holds when the call raises, unless it is close() that failed.
C1_ReleasedOnReturn ==
    (last.op \in ScopedOps /\ (~last.raised \/ "close" \notin last.failed))
        => (conn = 0 /\ cursor = 0)

\* C1 witness: insert was called with a connection left open by connect(), its
\* commit failed, and it returned with both handles None.
C1_Witness ==
    /\ watch = "calls" /\ last.op = "insert" /\ last.wasOpen /\ "commit" \in last.failed
    /\ ~last.raised /\ conn = 0 /\ cursor = 0

\* C2 (as claimed): no public call raises to its caller.
C2_NeverRaises == ~last.raised

\* C3 (as claimed): a write call in which a statement or the commit failed
\* leaves the committed contents of the database as they were before the call.
C3_FailedWriteIsNoOp ==
    [][(last'.op \in WriteOps /\ last'.failed \cap {"exec", "commit"} # {}) => file' = file]_vars

\* C4 (as claimed): after a connect() call in which a step failed, self.conn is
\* None.
C4_FailedConnectUnset ==
    (last.op = "connect" /\ last.failed # {}) => conn = 0

\* C5: after a nuke_db() whose removal succeeded the file does not exist; a
\* database file that does not exist has no tables and no rows, and a connect()
\* in which no step failed leaves a file; a table that existed when the file
\* was removed is in no catalog, and table_exists answers False for it, until
\* an initialize_db whose script names it or a CREATE TABLE execute for it.
C5_NukeRemoves ==
    /\ (last.op = "nuke_db" /\ last.ok) => (~fileExists /\ conn = 0)
    /\ ~fileExists => file = EmptyDB
    /\ (last.op = "connect" /\ last.ok) => fileExists
    /\ gone \cap file.tables = {}
    /\ (last.op = "table_exists" /\ ~last.raised /\ last.table \in gone)
          => last.ret = RetBool(FALSE)

\* C5 witness: songs was lost to a nuke_db, the file is back (a later call
\* connected), and a table_exists("songs") in which no step failed said False.
C5_Witness ==
    /\ watch = "tables" /\ last.op = "table_exists" /\ last.ok /\ last.table = "songs"
    /\ "songs" \in gone /\ fileExists /\ last.ret = RetBool(FALSE)

\* C6: a table made by an initialize_db in which no step failed, with no DROP
\* execute for it and no nuke_db since, is in the catalog, and a table_exists
\* call for it in which no step fails returns True; table_exists returns False
\* for a name no table has, and False when its query fails.
C6_TableExists ==
    /\ made \subseteq file.tables
    /\ (last.op = "table_exists" /\ last.ok) => last.ret = RetBool(last.table \in file.tables)
    /\ (last.op = "table_exists" /\ ~last.raised /\ last.table \notin file.tables)
          => last.ret = RetBool(FALSE)
    /\ (last.op = "table_exists" /\ ~last.raised /\ "exec" \in last.failed)
          => last.ret = RetBool(FALSE)

\* C6 witness: albums was made by initialize_db and table_exists("albums")
\* returned True.
C6_Witness ==
    /\ watch = "tables" /\ last.op = "table_exists" /\ last.ok /\ last.table = "albums"
    /\ "albums" \in made /\ last.ret = RetBool(TRUE)

\* data[key], and the row a dict naming every column describes.
ValueOf(data, key) == Vals(data)[IndexOf(Keys(data), key)]
RowOf(data)        == [c \in Columns |-> ValueOf(data, c)]

\* C7: when a fetch in which no step failed follows an insert(table, data) in
\* which no step failed, selects the keys of data in their order from that
\* table, and its condition matches the row data describes, one of the rows it
\* returns is the tuple of data's values in key order.
C7_InsertThenFetch ==
    (/\ last.op = "fetch" /\ last.ok /\ last.data # <<>>
     /\ last.cols = Keys(last.data)
     /\ Matches(RowOf(last.data), BindCond(last.cond, last.params)))
        => \E i \in 1..Len(last.ret.rows) : last.ret.rows[i] = Vals(last.data)

\* C7 witness: insert({"artist": "b", "title": "a"}) then
\* fetch("SELECT artist, title FROM songs WHERE artist = ?", ("b",)) returned a
\* row ("b", "a").
C7_Witness ==
    /\ watch = "rows" /\ last.op = "fetch" /\ last.ok
    /\ last.data = << <<"artist", "b">>, <<"title", "a">> >>
    /\ last.cols = <<"artist", "title">> /\ last.params = <<"b">>
    /\ <<"b", "a">> \in Range(last.ret.rows)

\* C8: an update in which no step failed leaves the set of tables and the rows
\* of every other table as they were, keeps the number and order of the rows of
\* its table, leaves a row that does not satisfy the condition as it was, and
\* in a row that satisfies it changes the columns that are keys of data to
\* data's values and no other column.
C8_UpdateFrame ==
    (last.op = "update" /\ last.ok) =>
        LET old  == last.before.rows[last.table]
            new  == file.rows[last.table]
            keys == Range(Keys(last.data))
        IN  /\ file.tables = last.before.tables
            /\ \A t \in Tables \ {last.table} : file.rows[t] = last.before.rows[t]
            /\ Len(new) = Len(old)
            /\ \A i \in 1..Len(old) :
                  IF Matches(old[i], last.cond)
                  THEN /\ \A c \in Columns \ keys : new[i][c] = old[i][c]
                       /\ \A c \in keys : new[i][c] = ValueOf(last.data, c)
                  ELSE new[i] = old[i]

\* C8 witness: songs held a row with title "a" and one with another title; an
\* update of artist WHERE title = 'a' changed the first and left the second.
C8_Witness ==
    /\ watch = "rows" /\ last.op = "update" /\ last.ok /\ last.cond = TitleIsA
    /\ \E i, j \in 1..Len(file.rows["songs"]) :
          /\ last.before.rows["songs"][i]["title"] = "a"
          /\ file.rows["songs"][i] # last.before.rows["songs"][i]
          /\ last.before.rows["songs"][j]["title"] # "a"
          /\ file.rows["songs"][j] = last.before.rows["songs"][j]

C10_NoLeak == open \subseteq {conn}

=============================================================================
